---- MODULE Spec2Model ----
(***************************************************************************)
(* Retrieval-and-aggregation engine of leilan-interface                    *)
(* (src/context_retriever.py, called from src/app.py).                     *)
(*                                                                         *)
(* Representation.                                                         *)
(*  - A text (chunk text, template, output string) is a sequence of tokens;*)
(*    a token is a pair <<kind, n>>.  <<"phrase", 0>> is one occurrence of *)
(*    the literal "Please continue, Leilan."; <<"tag", k>> is one of the   *)
(*    placeholders <gpt>, <opus>, <essay>, <interview>.                    *)
(*  - A similarity score is a floating-point number: its exact value in    *)
(*    thousandths as a reduced fraction [num, den], and the direction ulp  *)
(*    in which rounding has moved it off that value.  How an inexact dot   *)
(*    product or mean is rounded is a property of the build, held in fpu.  *)
(*  - An embedding is a triple of integers; the query embedding is a unit  *)
(*    vector looked up in a table, the sentence-transformer being an       *)
(*    external function.                                                   *)
(*  - A Python list is a sequence; Python index i is position i + 1.       *)
(***************************************************************************)
EXTENDS Integers, Sequences, FiniteSets, TLC

(***************************************************************************)
(* Bounds of the model                                                     *)
(***************************************************************************)
\* length of a long run of dialogue chunks of one kind (above the cap of 10)
LongRun == 11
\* length of a short run of dialogue chunks of one kind
ShortRun == 1
\* size of a large essay / interview corpus (above the cap of 5)
BigCorpus == 6
\* longest sub-chunk score sequence given to the aggregator on its own
MaxSubs == 3
MaxWalk == 3

(***************************************************************************)
(* RESULTS_PER_CATEGORY                                                    *)
(***************************************************************************)
CapGpt == 10
CapOpus == 10
CapEssay == 5
CapInterview == 5

\* the dict as the source sets it
SourceCaps ==
    [gpt |-> CapGpt, opus |-> CapOpus, essay |-> CapEssay, interview |-> CapInterview]

Tags == <<"gpt", "opus", "essay", "interview">>

(***************************************************************************)
(* Generic sequence helpers                                                *)
(***************************************************************************)
RECURSIVE Concat(_)
Concat(ss) == IF ss = << >> THEN << >> ELSE Head(ss) \o Concat(Tail(ss))

RECURSIVE Repeat(_, _)
Repeat(x, n) == IF n <= 0 THEN << >> ELSE <<x>> \o Repeat(x, n - 1)

Reverse(s) == [i \in 1..Len(s) |-> s[Len(s) + 1 - i]]

RECURSIVE Prefix(_, _)
Prefix(s, n) == IF n <= 0 \/ s = << >> THEN << >> ELSE <<Head(s)>> \o Prefix(Tail(s), n - 1)

\* seq[idx] of Python: negative indices count from the end, anything else
\* outside the list raises IndexError.
PyInRange(s, idx) == idx >= -Len(s) /\ idx < Len(s)
PyIndex(s, idx) == IF idx >= 0 THEN s[idx + 1] ELSE s[Len(s) + idx + 1]

(***************************************************************************)
(* Tokens and texts                                                        *)
(***************************************************************************)
Phrase == <<"phrase", 0>>
TagIndex(tag) == CHOOSE k \in 1..4 : Tags[k] = tag
TagToken(tag) == <<"tag", TagIndex(tag)>>

\* str.count("Please continue, Leilan."): the phrase cannot overlap itself,
\* so the count is the number of its occurrences.
RECURSIVE CountPhrase(_)
CountPhrase(text) ==
    IF text = << >> THEN 0
    ELSE (IF Head(text) = Phrase THEN 1 ELSE 0) + CountPhrase(Tail(text))

\* str.replace(old, new) for a placeholder: every occurrence is replaced.
RECURSIVE Replace(_, _, _)
Replace(text, tok, content) ==
    IF text = << >> THEN << >>
    ELSE (IF Head(text) = tok THEN content ELSE <<Head(text)>>)
         \o Replace(Tail(text), tok, content)

NL == <<"newline", 0>>
Rule == <<"underscores", 100>>
Dash == <<"hyphens", 100>>

\* prompt_template: five stretches of fixed prose around the four
\* placeholders, in the order interview, essay, opus, gpt; each placeholder
\* is followed by "\n" + 100*"_" + "\n\n".
prompt_template ==
    << <<"prose", 0>>, TagToken("interview"), NL, Rule, NL, NL,
       <<"prose", 1>>, TagToken("essay"), NL, Rule, NL, NL,
       <<"prose", 2>>, TagToken("opus"), NL, Rule, NL, NL,
       <<"prose", 3>>, TagToken("gpt"), NL, Rule, NL, NL,
       <<"prose", 4>> >>

(***************************************************************************)
(* ChunkMetadata._parse_label: a label is a sequence of string tokens, the *)
(* token "_" being the underscore.                                         *)
(***************************************************************************)
HasUnderscore(label) == \E i \in 1..Len(label) : label[i] = "_"
FirstUnderscore(label) ==
    CHOOSE i \in 1..Len(label) :
        label[i] = "_" /\ \A j \in 1..(i - 1) : label[j] # "_"

_parse_label(label) ==
    IF label = << >> \/ ~HasUnderscore(label) THEN [type |-> "", subtype |-> << >>]
    ELSE LET k == FirstUnderscore(label)
             prefix == SubSeq(label, 1, k - 1)
             suffix == SubSeq(label, k + 1, Len(label))
         IN  IF prefix = <<"gpt3">> THEN [type |-> "gpt", subtype |-> suffix]
             ELSE IF prefix = <<"opus">> THEN [type |-> "opus", subtype |-> suffix]
             ELSE [type |-> "", subtype |-> << >>]

ChunkMetadata(label) ==
    [label |-> label, type |-> _parse_label(label).type,
     subtype |-> _parse_label(label).subtype]

(***************************************************************************)
(* Scores.  A score is a binary floating-point number.  It is kept as the  *)
(* exact value num/den (thousandths, in lowest terms with den > 0) that    *)
(* the operation would give in exact arithmetic, and ulp, the direction    *)
(* in which the rounded result is off that value: two scores of the same   *)
(* exact value are ordered by ulp.  Rounding is far below the distance of  *)
(* two different exact values, which are ordered by their values.          *)
(***************************************************************************)
\* the rounding of the floating-point unit: for the operands of an inexact
\* dot product (fpu.dot) or mean (fpu.mean), the direction in which the
\* result is off
VARIABLE fpu

UlpErrors == {-1, 0, 1}

Abs(x) == IF x < 0 THEN -x ELSE x

RECURSIVE GCD(_, _)
GCD(a, b) == IF b = 0 THEN a ELSE GCD(b, a % b)

Frac(n, d) ==
    LET g == GCD(Abs(n), d)
    IN  [num |-> n \div g, den |-> d \div g, ulp |-> 0]

\* the score x rounded in direction e
Off(x, e) == [x EXCEPT !.ulp = e]

SameValue(x, y) == x.num * y.den = y.num * x.den
ValueLess(x, y) == x.num * y.den < y.num * x.den

FracLess(x, y) == ValueLess(x, y) \/ (SameValue(x, y) /\ x.ulp < y.ulp)
FracLeq(x, y) == ValueLess(x, y) \/ (SameValue(x, y) /\ x.ulp <= y.ulp)

\* the exact sum of scores that are whole thousandths
RECURSIVE SumSeq(_)
SumSeq(s) == IF s = << >> THEN 0 ELSE Head(s).num + SumSeq(Tail(s))

\* max(sims) of a non-empty list
RECURSIVE MaxSeq(_)
MaxSeq(s) ==
    IF Len(s) = 1 THEN s[1]
    ELSE LET m == MaxSeq(Tail(s)) IN IF FracLeq(m, Head(s)) THEN Head(s) ELSE m

\* sum(sims) / len(sims) loses nothing on one score (0 + x, x / 1) and on
\* two equal scores (x + x, 2x / 2)
ExactMean(sims) == Len(sims) = 1 \/ (Len(sims) = 2 /\ sims[1] = sims[2])

MeanRounding(sims) == IF sims \in DOMAIN fpu.mean THEN fpu.mean[sims] ELSE 0

\* a faulty variant of the reduction: the mean divides by one element too many
AggregateOffByOne(sims, method) ==
    IF method = "max" THEN MaxSeq(sims)
    ELSE Off(Frac(SumSeq(sims), Len(sims) + 1), MeanRounding(sims))

\* max(sims) if method == "max" else sum(sims) / len(sims)
Aggregate(sims, method) ==
    IF method = "max" THEN MaxSeq(sims)
    ELSE IF ExactMean(sims) THEN sims[1]
    ELSE Off(Frac(SumSeq(sims), Len(sims)), MeanRounding(sims))

(***************************************************************************)
(* Parent references of sub-chunks: a bare integer or a dict.              *)
(***************************************************************************)
NoDict == [k \in {} |-> 0]
IntRef(n) == [isdict |-> FALSE, int |-> n, dict |-> NoDict]
DictRef(d) == [isdict |-> TRUE, int |-> 0, dict |-> d]
OCI == "original_chunk_index"
QA == "qa_index"

\* a faulty variant of the resolution: an unrecognized dict falls back to parent 0
ResolveParentDefaultZero(ref) ==
    IF ref.isdict
    THEN IF OCI \in DOMAIN ref.dict THEN [ok |-> TRUE, idx |-> ref.dict[OCI]]
         ELSE IF QA \in DOMAIN ref.dict THEN [ok |-> TRUE, idx |-> ref.dict[QA]]
         ELSE [ok |-> TRUE, idx |-> 0]
    ELSE [ok |-> TRUE, idx |-> ref.int]

\* lines 165-174: the parent index of one sub-chunk, or "skip" (continue)
ResolveParent(ref) ==
    IF ref.isdict
    THEN IF OCI \in DOMAIN ref.dict THEN [ok |-> TRUE, idx |-> ref.dict[OCI]]
         ELSE IF QA \in DOMAIN ref.dict THEN [ok |-> TRUE, idx |-> ref.dict[QA]]
         ELSE [ok |-> FALSE, idx |-> 0]
    ELSE [ok |-> TRUE, idx |-> ref.int]

\* chunk_sims[parent_idx].append(sim) on a defaultdict(list), insertion-ordered
AppendToGroup(groups, idx, sim) ==
    IF \E g \in 1..Len(groups) : groups[g].idx = idx
    THEN [g \in 1..Len(groups) |->
            IF groups[g].idx = idx
            THEN [idx |-> idx, sims |-> Append(groups[g].sims, sim)]
            ELSE groups[g]]
    ELSE Append(groups, [idx |-> idx, sims |-> <<sim>>])

\* the loop of lines 163-176 from sub-chunk i (1-based) on; parent_indices[i]
\* raises IndexError when the parent table is shorter than the score sequence
RECURSIVE GroupLoop(_, _, _, _)
GroupLoop(subchunk_sims, parent_indices, i, groups) ==
    IF i > Len(subchunk_sims) THEN [raised |-> FALSE, groups |-> groups]
    ELSE IF i > Len(parent_indices) THEN [raised |-> TRUE, groups |-> groups]
    ELSE LET r == ResolveParent(parent_indices[i])
         IN  GroupLoop(subchunk_sims, parent_indices, i + 1,
                       IF r.ok THEN AppendToGroup(groups, r.idx, subchunk_sims[i])
                       ELSE groups)

\* get_chunk_similarities: the dict {idx: score} as the sequence of its items
\* in insertion order, or the IndexError
get_chunk_similarities(subchunk_sims, parent_indices, method) ==
    LET g == GroupLoop(subchunk_sims, parent_indices, 1, << >>)
    IN  [raised |-> g.raised,
         items |-> IF g.raised THEN << >>
                   ELSE [k \in 1..Len(g.groups) |->
                           [idx |-> g.groups[k].idx,
                            sim |-> Aggregate(g.groups[k].sims, method)]]]

\* views of the returned dict
Keys(items) == {items[k].idx : k \in 1..Len(items)}
ValueOf(items, idx) == (CHOOSE k \in 1..Len(items) : items[k].idx = idx)
Lookup(items, idx) == items[ValueOf(items, idx)].sim

(***************************************************************************)
(* sorted(chunk_sims.items(), key=lambda x: x[1], reverse=True): a stable  *)
(* sort, so items of equal score keep the order they have in the dict.     *)
(***************************************************************************)
\* position of the first item carrying the greatest score
FirstMax(items) ==
    CHOOSE k \in 1..Len(items) :
        /\ \A j \in 1..Len(items) : FracLeq(items[j].sim, items[k].sim)
        /\ \A j \in 1..(k - 1) : FracLess(items[j].sim, items[k].sim)

\* position of the first item carrying the least score
FirstMin(items) ==
    CHOOSE k \in 1..Len(items) :
        /\ \A j \in 1..Len(items) : FracLeq(items[k].sim, items[j].sim)
        /\ \A j \in 1..(k - 1) : FracLess(items[k].sim, items[j].sim)

Without(items, k) == SubSeq(items, 1, k - 1) \o SubSeq(items, k + 1, Len(items))

\* a faulty variant of the sort: reverse=True forgotten
RECURSIVE SortedAscending(_)
SortedAscending(items) ==
    IF items = << >> THEN << >>
    ELSE LET k == FirstMin(items)
         IN  <<items[k]>> \o SortedAscending(Without(items, k))

RECURSIVE SortedByScore(_)
SortedByScore(items) ==
    IF items = << >> THEN << >>
    ELSE LET k == FirstMax(items)
         IN  <<items[k]>> \o SortedByScore(Without(items, k))

(***************************************************************************)
(* The embedding provider (SentenceTransformer.encode) and the scorer.     *)
(* encode(text, normalize_embeddings=True) returns a vector of norm 1: a   *)
(* query embedding is a triple of integers in units of 1/UnitNorm whose    *)
(* squares sum up to UnitNorm squared.  Three queries: the first ranks a   *)
(* corpus by its first embedding coordinate, the second by its second,     *)
(* the third, <<0.6, 0, 0.8>>, by a weighted sum of the first and the      *)
(* third, whose products and sum floating-point arithmetic rounds.         *)
(***************************************************************************)
UnitNorm == 5

QueryIds == {1, 2, 3}
QueryText(n) == << <<"query", n>> >>
Queries == {QueryText(n) : n \in QueryIds}

get_embedding(text) ==
    LET n == text[1][2]
    IN  IF n = 1 THEN <<UnitNorm, 0, 0>>
        ELSE IF n = 2 THEN <<0, UnitNorm, 0>>
        ELSE <<3, 0, 4>>

\* the terms of the dot product, in units of 1/UnitNorm thousandths
Products(embedding, query_embedding) ==
    [k \in 1..Len(query_embedding) |-> embedding[k] * query_embedding[k]]

RECURSIVE SumInts(_)
SumInts(s) == IF s = << >> THEN 0 ELSE Head(s) + SumInts(Tail(s))

\* what the result depends on: the query and the coordinates of the row that
\* meet a non-zero coordinate of the query (x * 0.0 adds an exact zero)
Operands(embedding, query_embedding) ==
    <<[k \in 1..Len(query_embedding) |->
          IF query_embedding[k] = 0 THEN 0 ELSE embedding[k]],
      query_embedding>>

\* a product by 0, 1 or -1 is exact and so is a sum with at most one
\* non-zero term; any other product or sum is rounded
Inexact(embedding, query_embedding) ==
    \/ \E k \in 1..Len(query_embedding) :
          /\ embedding[k] # 0
          /\ query_embedding[k] \notin {0, UnitNorm, -UnitNorm}
    \/ Cardinality({k \in 1..Len(query_embedding) :
                       embedding[k] * query_embedding[k] # 0}) >= 2

\* the direction in which the floating-point unit rounds the dot product
DotRounding(embedding, query_embedding) ==
    IF /\ Inexact(embedding, query_embedding)
       /\ Operands(embedding, query_embedding) \in DOMAIN fpu.dot
    THEN fpu.dot[Operands(embedding, query_embedding)]
    ELSE 0

\* np.dot(embeddings, query_embedding): one score per row
calculate_similarities(query_embedding, embeddings) ==
    [i \in 1..Len(embeddings) |->
        Off(Frac(SumInts(Products(embeddings[i], query_embedding)), UnitNorm),
            DotRounding(embeddings[i], query_embedding))]

(***************************************************************************)
(* The artifact files a run starts from.  A dialogue corpus is two runs of *)
(* chunks of one kind each; chunk i of n has a sub-chunk of embedding      *)
(* <<n - i, i + 1, 0>>, and every fourth chunk a second one.  The third    *)
(* coordinate of dialogue chunk 2 may be lifted: under the third query its *)
(* score then has the same exact value as the score of chunk 3, and both   *)
(* are rounded.                                                            *)
(***************************************************************************)
REQUIRED_FILES ==
    <<"dialogue_embeddings_mpnet.npy",
      "essay_embeddings_mpnet.npy",
      "interview_embeddings_mpnet.npy",
      "dialogue_chunks_mpnet.json",
      "dialogue_metadata_mpnet.json",
      "essay_chunks_mpnet.json",
      "essay_metadata_mpnet.json",
      "interview_chunks_mpnet.json",
      "interview_metadata_mpnet.json",
      "subchunked/dialogue_texts_subchunked.json",
      "subchunked/dialogue_metadata_subchunked.json",
      "subchunked/essay_chunks_mpnet.json",
      "subchunked/essay_metadata_mpnet.json",
      "subchunked/interview_chunks_mpnet.json",
      "subchunked/interview_metadata_mpnet.json">>

RunKinds == {"gpt", "gptrep", "opus", "other", "mix"}
RunLengths == {0, ShortRun, LongRun}
Orders == {"fwd", "rev"}
Defects == {"none", "unrecognized", "beyond_metadata", "short_chunks", "negative_index",
            "essay_out_of_range", "interview_out_of_range", "more_rows", "fewer_rows",
            "missing_artifact", "missing_all"}

KindOf(runKind, i) ==
    IF runKind = "mix" THEN (IF i % 2 = 0 THEN "gpt" ELSE "opus") ELSE runKind

\* kind of dialogue chunk i (0-based) of the corpus made of runs a and b
ChunkKind(a, b, i) == IF i < a.len THEN KindOf(a.kind, i) ELSE KindOf(b.kind, i)

LabelOf(kind, i) ==
    IF kind \in {"gpt", "gptrep"}
    THEN (IF i % 2 = 0 THEN <<"gpt3", "_", "davinci">>
          ELSE <<"gpt3", "_", "text", "_", "davinci">>)
    ELSE IF kind = "opus" THEN <<"opus", "_", "transmission">>
    ELSE IF i % 3 = 0 THEN << >>
    ELSE IF i % 3 = 1 THEN <<"gpt3">>
    ELSE <<"essay", "_", "gpt3">>

\* a "gpt" chunk carries the phrase at most once, "gptrep" and "opus" chunks
\* carry it at least twice
DialogueText(kind, i) ==
    IF kind = "gpt" THEN Repeat(Phrase, i % 2) \o << <<"dialogue", i>> >>
    ELSE IF kind = "gptrep"
    THEN <<Phrase, <<"dialogue", i>>, Phrase>> \o Repeat(Phrase, i % 2)
    ELSE IF kind = "opus" THEN <<Phrase, <<"dialogue", i>>, Phrase>>
    ELSE << <<"dialogue", i>> >>

RefFor(i) ==
    IF i % 3 = 0 THEN IntRef(i)
    ELSE IF i % 3 = 1 THEN DictRef([k \in {OCI} |-> i])
    ELSE DictRef([k \in {QA} |-> i])

\* rows of a sub-chunk table: one per chunk, then the second sub-chunks
MainRows(n, lift) ==
    [j \in 1..n |-> [emb |-> <<n - (j - 1), j, IF j = 3 THEN lift ELSE 0>>,
                     parent |-> RefFor(j - 1)]]

RECURSIVE SecondRows(_, _)
SecondRows(n, i) ==
    IF i >= n THEN << >>
    ELSE (IF i % 4 = 3
          THEN << [emb |-> <<n - i + 5, 0, 0>>,
                   parent |-> DictRef([k \in {OCI, QA} |->
                                          IF k = OCI THEN i ELSE i + 1])] >>
          ELSE << >>)
         \o SecondRows(n, i + 1)

Rows(n, order, lift) ==
    LET rows == MainRows(n, lift) \o SecondRows(n, 0)
    IN  IF order = "rev" THEN Reverse(rows) ELSE rows

Table(rows) ==
    [embeddings |-> [j \in 1..Len(rows) |-> rows[j].emb],
     parent_indices |-> [j \in 1..Len(rows) |-> rows[j].parent]]

ExtraRow(ref) == [emb |-> <<50, 50, 0>>, parent |-> ref]

DropLast(s) == SubSeq(s, 1, Len(s) - 1)

\* essay chunk 1 quotes the placeholder <interview> in its text
PlainText(category, i) ==
    IF category = "essay" /\ i = 1
    THEN << <<category, i>>, TagToken("interview") >>
    ELSE << <<category, i>> >>

\* a corpus of a gpt run followed by a gptrep run carries the two scores of
\* equal exact value
Lift(a, b) == IF a.kind = "gpt" /\ b.kind = "gptrep" THEN 3 ELSE 0

Artifacts(a, b, order, nE, nI, defect) ==
    LET nD == a.len + b.len
        dRows == (IF defect = "unrecognized"
                  THEN <<ExtraRow(DictRef([k \in {"index"} |-> 0]))>>
                  ELSE IF defect = "beyond_metadata" THEN <<ExtraRow(IntRef(nD + 1))>>
                  ELSE IF defect = "negative_index" THEN <<ExtraRow(IntRef(-1))>>
                  ELSE << >>)
                 \o Rows(nD, order, Lift(a, b))
        eRows == (IF defect = "unrecognized" THEN <<ExtraRow(DictRef(NoDict))>>
                  ELSE IF defect = "essay_out_of_range" THEN <<ExtraRow(IntRef(nE))>>
                  ELSE << >>)
                 \o Rows(nE, order, 0)
        iRows == Rows(nI, order, 0)
                 \o (IF defect = "interview_out_of_range"
                     THEN <<[emb |-> <<0, 0, 0>>, parent |-> IntRef(nI + 2)]>>
                     ELSE << >>)
        texts == [j \in 1..nD |-> DialogueText(ChunkKind(a, b, j - 1), j - 1)]
    IN  [missing |-> IF defect = "missing_artifact" THEN {"dialogue_chunks_mpnet.json"}
                     ELSE IF defect = "missing_all"
                     THEN {REQUIRED_FILES[k] : k \in 1..Len(REQUIRED_FILES)}
                     ELSE {},
         dirs |-> defect # "missing_all",
         dialogue_chunks |-> IF defect = "short_chunks" THEN DropLast(texts) ELSE texts,
         dialogue_metadata |-> [j \in 1..nD |-> LabelOf(ChunkKind(a, b, j - 1), j - 1)],
         dialogue_subchunks |->
            IF defect = "more_rows"
            THEN [Table(dRows) EXCEPT !.parent_indices = DropLast(@)]
            ELSE Table(dRows),
         essay_chunks |-> [j \in 1..nE |-> PlainText("essay", j - 1)],
         essay_subchunks |->
            IF defect = "fewer_rows"
            THEN [Table(eRows) EXCEPT !.embeddings = DropLast(@)]
            ELSE Table(eRows),
         interview_chunks |-> [j \in 1..nI |-> PlainText("interview", j - 1)],
         interview_subchunks |-> Table(iRows)]

Runs == [kind : RunKinds, len : RunLengths]
DefaultRuns == { <<[kind |-> "mix", len |-> ShortRun], [kind |-> "gpt", len |-> ShortRun]>>,
                 <<[kind |-> "gpt", len |-> LongRun], [kind |-> "opus", len |-> LongRun]>> }
CorpusSizes == {0, 2, BigCorpus}

\* the corpora explored: every pair of runs in both table orders, every
\* defect on two dialogue corpora, every pair of essay and interview sizes
ArtifactSets ==
    {Artifacts(a, b, order, 2, 1, "none") : a \in Runs, b \in Runs, order \in Orders}
    \cup {Artifacts(r[1], r[2], order, 2, 1, defect) :
             r \in DefaultRuns, order \in Orders, defect \in Defects}
    \cup {Artifacts(r[1], r[2], "fwd", nE, nI, "none") :
             r \in DefaultRuns, nE \in CorpusSizes, nI \in CorpusSizes}

(***************************************************************************)
(* State                                                                   *)
(***************************************************************************)
VARIABLES
    files,          \* the artifacts: what each holds under embeddings_dir or,
                    \* while it is in files.missing, at the remote store;
                    \* files.dirs: the directories exist
    pc,             \* position of the process: "start", "ensure", "failed", "idle",
                    \* "walk", "essay", "interview", "format", "returned",
                    \* "raised", "sent"
    self,           \* the fields of the cached ContextRetriever
    query,          \* the query text of the call in progress
    ranked,         \* per corpus, the sorted (chunk index, score) list
    pos,            \* position of the dialogue walk in ranked.dialogue
    contexts,       \* the four buckets of (chunk text, score) pairs
    gpt_count,      \* the walk's counter of accepted gpt chunks
    result,         \* the string retrieve_context returned
    prompt,         \* the string the handler hands to the LLM call
    answered,       \* per query, the first string retrieve_context returned
    agg_in,         \* the arguments of get_chunk_similarities called on its own
    agg_out,        \* per method, what that call returned
    results_per_category,   \* the module-level dict RESULTS_PER_CATEGORY
    module_method   \* the module-level setting `method` (line 47)

vars == <<files, pc, self, query, ranked, pos, contexts, gpt_count, result, prompt,
          answered, agg_in, agg_out, results_per_category, module_method, fpu>>

agg == <<agg_in, agg_out>>

\* what no operation of the program changes
settings == <<results_per_category, module_method, fpu>>

RESULTS_PER_CATEGORY == results_per_category

locals == <<ranked, pos, contexts, gpt_count, result, prompt>>

NoTable == [embeddings |-> << >>, parent_indices |-> << >>]
NoRetriever ==
    [dialogue_chunks |-> << >>, dialogue_metadata |-> << >>,
     dialogue_subchunks |-> NoTable, gpt_indices |-> << >>, opus_indices |-> << >>,
     essay_chunks |-> << >>, essay_subchunks |-> NoTable,
     interview_chunks |-> << >>, interview_subchunks |-> NoTable]

NoRanked == [dialogue |-> << >>, essay |-> << >>, interview |-> << >>]
NoContexts == [gpt |-> << >>, opus |-> << >>, essay |-> << >>, interview |-> << >>]
NoAnswer == [set |-> FALSE, out |-> << >>]
NoCall == [armed |-> FALSE, subchunk_sims |-> << >>, parent_indices |-> << >>]
NoReturn == [done |-> FALSE, raised |-> FALSE, items |-> << >>]
NoReturns == [max |-> NoReturn, mean |-> NoReturn]

\* indices i of the metadata list whose type is t (lines 127-128)
RECURSIVE IndicesOfType(_, _, _)
IndicesOfType(metadata, t, i) ==
    IF i >= Len(metadata) THEN << >>
    ELSE (IF metadata[i + 1].type = t THEN <<i>> ELSE << >>)
         \o IndicesOfType(metadata, t, i + 1)

\* load_data on readable artifacts: the tables are stored as read, no row
\* count is compared
load_data(f) ==
    LET metadata == [j \in 1..Len(f.dialogue_metadata) |->
                        ChunkMetadata(f.dialogue_metadata[j])]
    IN  [dialogue_chunks |-> f.dialogue_chunks,
         dialogue_metadata |-> metadata,
         dialogue_subchunks |-> f.dialogue_subchunks,
         gpt_indices |-> IndicesOfType(metadata, "gpt", 0),
         opus_indices |-> IndicesOfType(metadata, "opus", 0),
         essay_chunks |-> f.essay_chunks,
         essay_subchunks |-> f.essay_subchunks,
         interview_chunks |-> f.interview_chunks,
         interview_subchunks |-> f.interview_subchunks]


\* the rounded dot products of a table under a query whose exact value is
\* also the exact value of a dot product of other operands of that table.
\* Rounding is far below the distance of two different exact values, so it
\* decides a comparison of two scores only there; the direction of the
\* rounding is kept for these dot products alone.
TiedDots(embeddings, q) ==
    LET rows == {embeddings[i] : i \in 1..Len(embeddings)}
    IN  {Operands(e, q) :
            e \in {r \in rows :
                      /\ Inexact(r, q)
                      /\ \E r2 \in rows :
                            /\ Operands(r2, q) # Operands(r, q)
                            /\ SumInts(Products(r2, q)) = SumInts(Products(r, q))}}

TrackedDots(f) ==
    UNION {TiedDots(f.dialogue_subchunks.embeddings, get_embedding(q))
             \cup TiedDots(f.essay_subchunks.embeddings, get_embedding(q))
             \cup TiedDots(f.interview_subchunks.embeddings, get_embedding(q)) :
           q \in Queries}

\* the ways a floating-point unit can round them
DotRoundings(f) == [dot : [TrackedDots(f) -> UlpErrors], mean : {NoDict}]

Init ==
    /\ files \in ArtifactSets
    /\ pc = "start"
    /\ self = NoRetriever
    /\ query = << >>
    /\ ranked = NoRanked
    /\ pos = 0
    /\ contexts = NoContexts
    /\ gpt_count = 0
    /\ result = << >>
    /\ prompt = << >>
    /\ answered = [q \in Queries |-> NoAnswer]
    /\ agg_in = NoCall
    /\ agg_out = NoReturns
    /\ results_per_category = SourceCaps
    /\ module_method = "mean"
    /\ fpu \in DotRoundings(files)

(***************************************************************************)
(* get_retriever (app.py) and ContextRetriever.__init__.  The construction *)
(* loads the sentence-transformer, makes the directories, fetches every    *)
(* artifact that is not there, one HTTP request per file in the order of   *)
(* REQUIRED_FILES, and loads the data.  A request that fails makes the     *)
(* construction raise; the files written before it stay.                   *)
(***************************************************************************)
\* lines 85 and 90-92: SentenceTransformer(...) can raise; the two mkdir
get_retriever ==
    /\ pc = "start"
    /\ \E loaded \in BOOLEAN :
          IF loaded
          THEN pc' = "ensure" /\ files' = [files EXCEPT !.dirs = TRUE]
          ELSE pc' = "failed" /\ files' = files
    /\ UNCHANGED <<self, query, locals, answered, agg, settings>>

\* the next file of the loop of lines 94-102 that is not there
FirstMissing(f) ==
    REQUIRED_FILES[CHOOSE i \in 1..Len(REQUIRED_FILES) :
                      /\ REQUIRED_FILES[i] \in f.missing
                      /\ \A j \in 1..(i - 1) : REQUIRED_FILES[j] \notin f.missing]

\* lines 98-108: requests.get and raise_for_status raise, or the content is
\* written to the file
download_file ==
    /\ pc = "ensure"
    /\ files.missing # {}
    /\ \E served \in BOOLEAN :
          IF served
          THEN pc' = pc /\ files' = [files EXCEPT !.missing = @ \ {FirstMissing(files)}]
          ELSE pc' = "failed" /\ files' = files
    /\ UNCHANGED <<self, query, locals, answered, agg, settings>>

\* line 87, every file being there: the retriever is built and cached
LoadData ==
    /\ pc = "ensure"
    /\ files.missing = {}
    /\ self' = load_data(files)
    /\ pc' = "idle"
    /\ UNCHANGED <<files, query, locals, answered, agg, settings>>

\* st.cache_resource keeps no retriever when the construction raised: the
\* next run of the script calls get_retriever again
Rerun ==
    /\ pc = "failed"
    /\ pc' = "start"
    /\ UNCHANGED <<files, self, query, locals, answered, agg, settings>>

(***************************************************************************)
(* retrieve_context, lines 184-196: embed the query, score and aggregate   *)
(* the dialogue sub-chunks, sort, start the walk.                          *)
(***************************************************************************)
\* a faulty variant of the ranking: the module-level setting is handed to the
\* aggregator
RankCorpusGlobalMethod(query_embedding, subchunk_data) ==
    LET sims == calculate_similarities(query_embedding, subchunk_data.embeddings)
        chunk_sims == get_chunk_similarities(sims, subchunk_data.parent_indices,
                                             module_method)
    IN  [raised |-> chunk_sims.raised, list |-> SortedByScore(chunk_sims.items)]

\* lines 192-193 and 222-223 pass no method argument: the aggregator runs
\* with the default of its signature (line 161)
RankCorpus(query_embedding, subchunk_data) ==
    LET sims == calculate_similarities(query_embedding, subchunk_data.embeddings)
        chunk_sims == get_chunk_similarities(sims, subchunk_data.parent_indices, "max")
    IN  [raised |-> chunk_sims.raised, list |-> SortedByScore(chunk_sims.items)]

\* a faulty variant of the first part of the call: it consumes the last row of
\* the shared dialogue table instead of only reading it
RetrieveBeginInPlace(q) ==
    /\ pc = "idle"
    /\ query' = q
    /\ LET r == RankCorpus(get_embedding(q), self.dialogue_subchunks)
       IN  /\ pc' = IF r.raised THEN "raised" ELSE "walk"
           /\ ranked' = [NoRanked EXCEPT !.dialogue = r.list]
    /\ self' = [self EXCEPT !.dialogue_subchunks =
                    [embeddings |-> DropLast(@.embeddings),
                     parent_indices |-> DropLast(@.parent_indices)]]
    /\ pos' = 1
    /\ contexts' = NoContexts
    /\ gpt_count' = 0
    /\ result' = << >>
    /\ prompt' = << >>
    /\ UNCHANGED <<files, answered, agg, settings>>

RetrieveBegin(q) ==
    /\ pc = "idle"
    /\ query' = q
    /\ LET r == RankCorpus(get_embedding(q), self.dialogue_subchunks)
       IN  /\ pc' = IF r.raised THEN "raised" ELSE "walk"
           /\ ranked' = [NoRanked EXCEPT !.dialogue = r.list]
    /\ pos' = 1
    /\ contexts' = NoContexts
    /\ gpt_count' = 0
    /\ result' = << >>
    /\ prompt' = << >>
    /\ UNCHANGED <<files, self, answered, agg, settings>>

(***************************************************************************)
(* retrieve_context, lines 197-215: one iteration of the dialogue walk.    *)
(***************************************************************************)
\* a faulty variant of the phrase filter: two occurrences still pass
PassesPhraseFilterLoose(chunk_text) == CountPhrase(chunk_text) <= 2

\* line 206
PassesPhraseFilter(chunk_text) == CountPhrase(chunk_text) <= 1

\* a faulty variant of the gpt cap: one entry too many
GptHasRoomOffByOne(count) == count <= RESULTS_PER_CATEGORY.gpt

\* line 207
GptHasRoom(count) == count < RESULTS_PER_CATEGORY.gpt

\* line 210
OpusHasRoom(bucket) == Len(bucket) < RESULTS_PER_CATEGORY.opus

\* a faulty variant of the exit test: stop as soon as one bucket is full
EitherFull(count, bucket) ==
    count >= RESULTS_PER_CATEGORY.gpt \/ Len(bucket) >= RESULTS_PER_CATEGORY.opus

\* lines 213-214
BothFull(count, bucket) ==
    count >= RESULTS_PER_CATEGORY.gpt /\ Len(bucket) >= RESULTS_PER_CATEGORY.opus

Pair(text, sim) == [text |-> text, sim |-> sim]

\* the loop body for one ranked entry: the buckets and the counter after it,
\* whether it left the loop by break, whether it raised IndexError
WalkBody(s, entry, ctx, count) ==
    LET chunk_idx == entry.idx
        same == [raised |-> FALSE, stop |-> FALSE, contexts |-> ctx, gpt_count |-> count]
    IN  IF chunk_idx >= Len(s.dialogue_metadata) THEN same
        ELSE IF ~PyInRange(s.dialogue_metadata, chunk_idx)
                \/ ~PyInRange(s.dialogue_chunks, chunk_idx)
        THEN [same EXCEPT !.raised = TRUE]
        ELSE LET metadata == PyIndex(s.dialogue_metadata, chunk_idx)
                 chunk_text == PyIndex(s.dialogue_chunks, chunk_idx)
                 takeGpt == /\ metadata.type = "gpt"
                            /\ PassesPhraseFilter(chunk_text)
                            /\ GptHasRoom(count)
                 takeOpus == /\ metadata.type = "opus"
                             /\ OpusHasRoom(ctx.opus)
                 ctx2 == IF takeGpt
                         THEN [ctx EXCEPT !.gpt = Append(@, Pair(chunk_text, entry.sim))]
                         ELSE IF takeOpus
                         THEN [ctx EXCEPT !.opus = Append(@, Pair(chunk_text, entry.sim))]
                         ELSE ctx
                 count2 == IF takeGpt THEN count + 1 ELSE count
             IN  [raised |-> FALSE, stop |-> BothFull(count2, ctx2.opus),
                  contexts |-> ctx2, gpt_count |-> count2]

WalkStep ==
    /\ pc = "walk"
    /\ pos <= Len(ranked.dialogue)
    /\ LET r == WalkBody(self, ranked.dialogue[pos], contexts, gpt_count)
       IN  /\ pc' = IF r.raised THEN "raised" ELSE IF r.stop THEN "essay" ELSE "walk"
           /\ pos' = IF r.raised \/ r.stop THEN pos ELSE pos + 1
           /\ contexts' = r.contexts
           /\ gpt_count' = r.gpt_count
    /\ UNCHANGED <<files, self, query, ranked, result, prompt, answered, agg, settings>>

\* the ranked list is exhausted
WalkEnd ==
    /\ pc = "walk"
    /\ pos > Len(ranked.dialogue)
    /\ pc' = "essay"
    /\ UNCHANGED <<files, self, query, locals, answered, agg, settings>>

(***************************************************************************)
(* retrieve_context, lines 218-229: essay, then interview.                 *)
(***************************************************************************)
\* top_chunks[:K]
TopK(top_chunks, k) == Prefix(top_chunks, k)

SelectCategory(category, subchunk_data, full_chunks, next) ==
    /\ pc = category
    /\ LET r == RankCorpus(get_embedding(query), subchunk_data)
           top == TopK(r.list, RESULTS_PER_CATEGORY[category])
           fails == r.raised \/ \E k \in 1..Len(top) : ~PyInRange(full_chunks, top[k].idx)
       IN  /\ pc' = IF fails THEN "raised" ELSE next
           /\ ranked' = IF r.raised THEN ranked ELSE [ranked EXCEPT ![category] = r.list]
           /\ contexts' =
                IF fails THEN contexts
                ELSE [contexts EXCEPT ![category] =
                        [k \in 1..Len(top) |->
                            Pair(PyIndex(full_chunks, top[k].idx), top[k].sim)]]
    /\ UNCHANGED <<files, self, query, pos, gpt_count, result, prompt, answered, agg, settings>>

SelectEssay == SelectCategory("essay", self.essay_subchunks, self.essay_chunks, "interview")

SelectInterview ==
    SelectCategory("interview", self.interview_subchunks, self.interview_chunks, "format")

(***************************************************************************)
(* retrieve_context, lines 231-254: render the four sections and splice    *)
(* them into the template.                                                 *)
(***************************************************************************)
\* f"{sim:.3f}" of a score in thousandths: the nearest thousandth
Fmt3(sim) == (2 * sim.num + sim.den) \div (2 * sim.den)

Entry(tag, chunk) ==
    IF tag # "gpt" THEN <<NL, NL>> \o chunk.text \o <<NL, Dash>>
    ELSE <<NL, <<"semantic similarity", Fmt3(chunk.sim)>>, NL>> \o chunk.text \o <<NL, Dash>>

\* "\n".join(...)
RECURSIVE JoinEntries(_, _)
JoinEntries(tag, chunks) ==
    IF chunks = << >> THEN << >>
    ELSE IF Len(chunks) = 1 THEN Entry(tag, chunks[1])
    ELSE Entry(tag, chunks[1]) \o <<NL>> \o JoinEntries(tag, Tail(chunks))

FormatSection(tag, chunks) ==
    IF chunks = << >> THEN << >> ELSE <<NL, Rule>> \o JoinEntries(tag, chunks)

\* a faulty variant of the replacement loop: an empty section leaves its
\* placeholder in the text
RECURSIVE ReplaceTagsSkipEmpty(_, _, _)
ReplaceTagsSkipEmpty(text, ctx, k) ==
    IF k > Len(Tags) THEN text
    ELSE ReplaceTagsSkipEmpty(
            IF ctx[Tags[k]] = << >> THEN text
            ELSE Replace(text, TagToken(Tags[k]), FormatSection(Tags[k], ctx[Tags[k]])),
            ctx, k + 1)

\* the replacement loop of lines 250-252 from tag number k on
RECURSIVE ReplaceTags(_, _, _)
ReplaceTags(text, ctx, k) ==
    IF k > Len(Tags) THEN text
    ELSE ReplaceTags(Replace(text, TagToken(Tags[k]), FormatSection(Tags[k], ctx[Tags[k]])),
                     ctx, k + 1)

FinalOutput(ctx) == ReplaceTags(prompt_template, ctx, 1)

Format ==
    /\ pc = "format"
    /\ result' = FinalOutput(contexts)
    /\ pc' = "returned"
    /\ UNCHANGED <<files, self, query, ranked, pos, contexts, gpt_count, prompt, answered, agg, settings>>

(***************************************************************************)
(* The "ask Leilan" handler of app.py around the call (line 143 and the    *)
(* except clauses).                                                        *)
(***************************************************************************)
QueryMarker == <<NL, <<"QUERY: ", 0>>>>

\* retriever.retrieve_context(query) + "\nQUERY: " + query
BuildPrompt(returned, q) == returned \o QueryMarker \o q

Handler ==
    /\ pc = "returned"
    /\ prompt' = BuildPrompt(result, query)
    /\ answered' = IF answered[query].set THEN answered
                   ELSE [answered EXCEPT ![query] = [set |-> TRUE, out |-> result]]
    /\ pc' = "sent"
    /\ UNCHANGED <<files, self, query, ranked, pos, contexts, gpt_count, result, agg, settings>>

\* the run of the script ends: the locals of the call are gone
Finish ==
    /\ pc \in {"sent", "raised"}
    /\ pc' = "idle"
    /\ query' = << >>
    /\ ranked' = NoRanked
    /\ pos' = 0
    /\ contexts' = NoContexts
    /\ gpt_count' = 0
    /\ result' = << >>
    /\ prompt' = << >>
    /\ UNCHANGED <<files, self, answered, agg, settings>>

Next ==
    \/ get_retriever
    \/ download_file
    \/ LoadData
    \/ Rerun
    \/ \E q \in Queries : RetrieveBegin(q)
    \/ WalkStep
    \/ WalkEnd
    \/ SelectEssay
    \/ SelectInterview
    \/ Format
    \/ Handler
    \/ Finish

Spec == Init /\ [][Next]_vars

(***************************************************************************)
(* get_chunk_similarities on its own: every score sequence of at most      *)
(* MaxSubs scores, every parallel sequence of parent references of the     *)
(* five shapes, with a parent table of the same length, one entry short    *)
(* or one entry long, under both methods.                                  *)
(***************************************************************************)
\* scores in thousandths; three times 0.1 and three times 0.7 are means that
\* binary floating point rounds off the exact value
AggScores == {-1, 100, 700}
AggRefs == {IntRef(0),
            DictRef([k \in {OCI} |-> 1]),
            DictRef([k \in {QA} |-> 0]),
            DictRef([k \in {OCI, QA} |-> IF k = OCI THEN 1 ELSE 0]),
            DictRef([k \in {"index"} |-> 0])}
\* the parent indices those references name
AggParents == {0, 1}
AggRows == [sim : AggScores, parent : AggRefs]
AggLengths == {"same", "short", "long"}
Methods == {"max", "mean"}

RECURSIVE SeqsUpTo(_, _)
SeqsUpTo(S, n) ==
    IF n = 0 THEN {<< >>}
    ELSE LET shorter == SeqsUpTo(S, n - 1)
         IN  shorter \cup {Append(t, x) : t \in {u \in shorter : Len(u) = n - 1}, x \in S}

AggCall(rows, length) ==
    LET parents == [j \in 1..Len(rows) |-> rows[j].parent]
    IN  [armed |-> TRUE,
         subchunk_sims |-> [j \in 1..Len(rows) |-> Frac(rows[j].sim, 1)],
         parent_indices |-> IF length = "short" THEN DropLast(parents)
                            ELSE IF length = "long" THEN Append(parents, IntRef(0))
                            ELSE parents]

\* the groups of scores of the call whose mean is inexact
MeanOperands(call) ==
    LET groups == GroupLoop(call.subchunk_sims, call.parent_indices, 1, << >>).groups
    IN  {groups[k].sims : k \in {j \in 1..Len(groups) : ~ExactMean(groups[j].sims)}}

\* the ways a floating-point unit can round those means
MeanRoundings(call) == [dot : {NoDict}, mean : [MeanOperands(call) -> UlpErrors]]

InitAgg ==
    /\ files = Artifacts([kind |-> "other", len |-> 0], [kind |-> "other", len |-> 0],
                         "fwd", 0, 0, "none")
    /\ pc = "aggregator"
    /\ self = NoRetriever
    /\ query = << >>
    /\ ranked = NoRanked
    /\ pos = 0
    /\ contexts = NoContexts
    /\ gpt_count = 0
    /\ result = << >>
    /\ prompt = << >>
    /\ answered = [q \in Queries |-> NoAnswer]
    /\ \E rows \in SeqsUpTo(AggRows, MaxSubs), length \in AggLengths :
          /\ length = "short" => rows # << >>
          /\ agg_in = AggCall(rows, length)
    /\ agg_out = NoReturns
    /\ results_per_category = SourceCaps
    /\ module_method = "mean"
    /\ fpu \in MeanRoundings(agg_in)

CallAggregator(method) ==
    /\ agg_in.armed
    /\ ~agg_out[method].done
    /\ LET r == get_chunk_similarities(agg_in.subchunk_sims, agg_in.parent_indices, method)
       IN  agg_out' = [agg_out EXCEPT ![method] =
                          [done |-> TRUE, raised |-> r.raised, items |-> r.items]]
    /\ UNCHANGED <<files, pc, self, query, locals, answered, agg_in, settings>>

NextAgg == \E method \in Methods : CallAggregator(method)

SpecAgg == InitAgg /\ [][NextAgg]_vars

(***************************************************************************)
(* The dialogue walk on its own (lines 196-215), under the caps of         *)
(* RESULTS_PER_CATEGORY.  A corpus is a block of filler chunks, empty or   *)
(* one chunk short of the cap of each bucket, followed by at most MaxWalk  *)
(* chunks, each of any kind and with any of three scores (of two after a  *)
(* filler block), without a stray sub-chunk or with one whose parent index *)
(* lies beyond the metadata list or is -1.  The scores of the fillers are  *)
(* distinct and lie between the lowest and the highest score, so the       *)
(* chunks that follow them are ranked before and after them.  The call is  *)
(* followed up to the end of the walk.                                     *)
(***************************************************************************)
WalkKinds == {"gpt", "gptrep", "opus", "other"}
WalkScores == {200, 500, 900}
\* the chunks that may follow f fillers of each kind: after a filler block
\* they take the highest or the lowest score
WalkChunks(f) ==
    [kind : WalkKinds, score : IF f = 0 THEN WalkScores ELSE {200, 900}]

\* f gpt chunks, then f opus chunks, their scores interleaved
Fillers(f) ==
    [j \in 1..(2 * f) |->
        IF j <= f THEN [kind |-> "gpt", score |-> 490 - 20 * (j - 1)]
        ELSE [kind |-> "opus", score |-> 480 - 20 * (j - f - 1)]]

WalkFills == {0, (IF CapGpt <= CapOpus THEN CapGpt ELSE CapOpus) - 1}

WalkStrays == {"none", "beyond", "negative"}

WalkArtifacts(chunks, stray) ==
    LET n == Len(chunks)
        rows == (IF stray = "beyond"
                 THEN <<[emb |-> <<900, 0, 0>>, parent |-> IntRef(n)]>>
                 ELSE IF stray = "negative"
                 THEN <<[emb |-> <<900, 0, 0>>, parent |-> IntRef(-1)]>>
                 ELSE << >>)
                \o [j \in 1..n |-> [emb |-> <<chunks[j].score, 0, 0>>, parent |-> IntRef(j - 1)]]
    IN  [missing |-> {},
         dirs |-> TRUE,
         dialogue_chunks |-> [j \in 1..n |-> DialogueText(chunks[j].kind, j - 1)],
         dialogue_metadata |-> [j \in 1..n |-> LabelOf(chunks[j].kind, j - 1)],
         dialogue_subchunks |-> Table(rows),
         essay_chunks |-> << >>,
         essay_subchunks |-> NoTable,
         interview_chunks |-> << >>,
         interview_subchunks |-> NoTable]

InitWalk ==
    /\ \E f \in WalkFills, stray \in WalkStrays :
       \E chunks \in SeqsUpTo(WalkChunks(f), MaxWalk) :
          files = WalkArtifacts(Fillers(f) \o chunks, stray)
    /\ pc = "start"
    /\ self = NoRetriever
    /\ query = << >>
    /\ ranked = NoRanked
    /\ pos = 0
    /\ contexts = NoContexts
    /\ gpt_count = 0
    /\ result = << >>
    /\ prompt = << >>
    /\ answered = [q \in Queries |-> NoAnswer]
    /\ agg_in = NoCall
    /\ agg_out = NoReturns
    /\ results_per_category = SourceCaps
    /\ module_method = "mean"
    /\ fpu \in DotRoundings(files)

NextWalk ==
    \/ get_retriever
    \/ LoadData
    \/ RetrieveBegin(QueryText(1))
    \/ WalkStep
    \/ WalkEnd

SpecWalk == InitWalk /\ [][NextWalk]_vars

(***************************************************************************)
(* The program with the module-level setting `method` (line 47) holding    *)
(* either of its two values before the first call.                         *)
(***************************************************************************)
\* the corpora of the default runs: every defect, every pair of essay and
\* interview sizes
MethodArtifactSets ==
    {Artifacts(r[1], r[2], order, 2, 1, defect) :
        r \in DefaultRuns, order \in Orders, defect \in Defects}
    \cup {Artifacts(r[1], r[2], "fwd", nE, nI, "none") :
             r \in DefaultRuns, nE \in CorpusSizes, nI \in CorpusSizes}

InitMethod ==
    /\ files \in MethodArtifactSets
    /\ pc = "start"
    /\ self = NoRetriever
    /\ query = << >>
    /\ ranked = NoRanked
    /\ pos = 0
    /\ contexts = NoContexts
    /\ gpt_count = 0
    /\ result = << >>
    /\ prompt = << >>
    /\ answered = [q \in Queries |-> NoAnswer]
    /\ agg_in = NoCall
    /\ agg_out = NoReturns
    /\ results_per_category = SourceCaps
    /\ module_method \in Methods
    /\ fpu \in DotRoundings(files)

SpecMethod == InitMethod /\ [][Next]_vars

(***************************************************************************)
(* Vocabulary of the properties                                            *)
(***************************************************************************)
Corpora == {"dialogue", "essay", "interview"}
SubchunksOf(c) ==
    IF c = "dialogue" THEN self.dialogue_subchunks
    ELSE IF c = "essay" THEN self.essay_subchunks ELSE self.interview_subchunks

\* the walk has ended and its buckets are still at hand
WalkOver == pc \in {"essay", "interview", "format", "returned", "sent"}

\* the ranked dialogue entry at position k is a chunk of type t that the
\* walk may accept: its index is known to the metadata list, and a gpt chunk
\* passes the repeated-phrase filter
Acceptable(k, t) ==
    LET idx == ranked.dialogue[k].idx
    IN  /\ idx < Len(self.dialogue_metadata)
        /\ PyInRange(self.dialogue_metadata, idx)
        /\ PyInRange(self.dialogue_chunks, idx)
        /\ PyIndex(self.dialogue_metadata, idx).type = t
        /\ t = "gpt" => CountPhrase(PyIndex(self.dialogue_chunks, idx)) <= 1

Scores(bucket) == [k \in 1..Len(bucket) |-> bucket[k].sim]
NonIncreasing(fracs) ==
    \A j, k \in 1..Len(fracs) : j < k => FracLeq(fracs[k], fracs[j])

(***************************************************************************)
(* C1: at every step of every call, also in the middle of the dialogue     *)
(* walk, each bucket is no longer than its cap: gpt <= 10, opus <= 10,     *)
(* essay <= 5, interview <= 5.                                             *)
(***************************************************************************)
C1_BucketsWithinCaps ==
    /\ Len(contexts.gpt) <= 10
    /\ Len(contexts.opus) <= 10
    /\ Len(contexts.essay) <= 5
    /\ Len(contexts.interview) <= 5
    /\ \A k \in 1..4 : Len(contexts[Tags[k]]) <= RESULTS_PER_CATEGORY[Tags[k]]

\* the walk stands on an acceptable gpt chunk while the gpt bucket is full
\* and the opus bucket is not, so that the walk goes on
C1_Witness ==
    /\ pc = "walk"
    /\ pos <= Len(ranked.dialogue)
    /\ Len(contexts.gpt) = CapGpt
    /\ Len(contexts.opus) < CapOpus
    /\ Acceptable(pos, "gpt")

(***************************************************************************)
(* C2: a dialogue chunk of type gpt whose text holds the phrase "Please    *)
(* continue, Leilan." two or more times is never in the gpt bucket.        *)
(***************************************************************************)
C2_RepeatedPhraseFiltered ==
    \A i \in 1..Len(self.dialogue_chunks) :
        (/\ i <= Len(self.dialogue_metadata)
         /\ self.dialogue_metadata[i].type = "gpt"
         /\ CountPhrase(self.dialogue_chunks[i]) >= 2)
        => \A k \in 1..Len(contexts.gpt) : contexts.gpt[k].text # self.dialogue_chunks[i]

\* the top-ranked entry was such a chunk, the walk has passed it with room
\* left in both buckets
C2_Witness ==
    /\ pc = "walk"
    /\ pos = 2
    /\ LET idx == ranked.dialogue[1].idx
       IN  /\ idx >= 0 /\ idx < Len(self.dialogue_chunks)
           /\ self.dialogue_metadata[idx + 1].type = "gpt"
           /\ CountPhrase(self.dialogue_chunks[idx + 1]) >= 2
    /\ contexts.gpt = << >>
    /\ contexts.opus = << >>

(***************************************************************************)
(* C3 as stated: every ranked list is sorted on (-score, chunk index):     *)
(* scores descend and equal scores come in ascending chunk-index order.    *)
(***************************************************************************)
SortedOnScoreThenIndex(list) ==
    \A j, k \in 1..Len(list) :
        j < k => \/ FracLess(list[k].sim, list[j].sim)
                 \/ list[k].sim = list[j].sim /\ list[j].idx < list[k].idx

C3_Original_TiesByChunkIndex ==
    \A c \in Corpora : SortedOnScoreThenIndex(ranked[c])

\* row of the parent table of corpus c at which chunk index idx first occurs
FirstRow(c, idx) ==
    LET parents == SubchunksOf(c).parent_indices
    IN  CHOOSE i \in 1..Len(parents) :
            /\ ResolveParent(parents[i]) = [ok |-> TRUE, idx |-> idx]
            /\ \A j \in 1..(i - 1) : ResolveParent(parents[j]) # [ok |-> TRUE, idx |-> idx]

\* a lexicographic order, so it is enough to compare neighbours
SortedOnScoreThenFirstRow(c, list) ==
    \A j \in 1..(Len(list) - 1) :
        \/ FracLess(list[j + 1].sim, list[j].sim)
        \/ /\ list[j + 1].sim = list[j].sim
           /\ FirstRow(c, list[j].idx) < FirstRow(c, list[j + 1].idx)

(***************************************************************************)
(* C3 as amended: every ranked list is ordered by score descending, equal  *)
(* scores in the order in which their chunk indices first occur in the     *)
(* parent table of the sub-chunks (the insertion order of the aggregated   *)
(* map); within each bucket the scores are non-increasing.                 *)
(***************************************************************************)
C3_RankedByScoreThenInsertion ==
    /\ \A c \in Corpora : SortedOnScoreThenFirstRow(c, ranked[c])
    /\ \A k \in 1..4 : NonIncreasing(Scores(contexts[Tags[k]]))

\* two equal scores head the dialogue ranking, the larger chunk index first,
\* and both chunks have gone into the gpt bucket in that order
C3_Witness ==
    /\ pc = "walk"
    /\ Len(ranked.dialogue) >= 2
    /\ ranked.dialogue[1].sim = ranked.dialogue[2].sim
    /\ ranked.dialogue[1].idx > ranked.dialogue[2].idx
    /\ Len(contexts.gpt) = 2
    /\ contexts.gpt[1].sim = contexts.gpt[2].sim

(***************************************************************************)
(* Vocabulary of the aggregator properties                                 *)
(***************************************************************************)
BothReturned ==
    /\ agg_out.max.done /\ ~agg_out.max.raised
    /\ agg_out.mean.done /\ ~agg_out.mean.raised

\* a reference that names a parent: a bare integer or a dict with one of the
\* two recognized keys
Recognized(ref) == ~ref.isdict \/ OCI \in DOMAIN ref.dict \/ QA \in DOMAIN ref.dict
ParentOf(ref) ==
    IF ~ref.isdict THEN ref.int
    ELSE IF OCI \in DOMAIN ref.dict THEN ref.dict[OCI] ELSE ref.dict[QA]

\* the sub-chunks (positions of the score sequence) that contribute to idx
Contributors(idx) ==
    {i \in 1..Len(agg_in.subchunk_sims) :
        /\ i <= Len(agg_in.parent_indices)
        /\ Recognized(agg_in.parent_indices[i])
        /\ ParentOf(agg_in.parent_indices[i]) = idx}
ContributorScores(idx) == {agg_in.subchunk_sims[i] : i \in Contributors(idx)}

(***************************************************************************)
(* C4 as stated: on the same scores and parents the max and the mean       *)
(* mappings have the same keys, max >= mean for every key, and the two are *)
(* equal if and only if the key's group has exactly one sub-chunk.         *)
(***************************************************************************)
C4_Original_EqualIffSingleton ==
    BothReturned =>
        /\ Keys(agg_out.max.items) = Keys(agg_out.mean.items)
        /\ \A idx \in Keys(agg_out.max.items) :
              /\ FracLeq(Lookup(agg_out.mean.items, idx), Lookup(agg_out.max.items, idx))
              /\ Lookup(agg_out.mean.items, idx) = Lookup(agg_out.max.items, idx)
                    <=> Cardinality(Contributors(idx)) = 1

(***************************************************************************)
(* C4 as amended: the max and the mean mappings have the same keys.  The   *)
(* mean-policy value is the floating-point result of sum/len: its exact    *)
(* value is at most the max-policy value, and equal to it if and only if   *)
(* all scores of the key's group are equal; the returned value is off the  *)
(* exact one by a rounding error at most, in either direction.  Where the  *)
(* group is one sub-chunk, or two of the same score, nothing is rounded    *)
(* and the two returned values are identical.                              *)
(***************************************************************************)
C4_MaxAtLeastExactMean ==
    BothReturned =>
        /\ Keys(agg_out.max.items) = Keys(agg_out.mean.items)
        /\ \A idx \in Keys(agg_out.max.items) :
              LET mean == Lookup(agg_out.mean.items, idx)
                  max == Lookup(agg_out.max.items, idx)
              IN  /\ ~ValueLess(max, mean)
                  /\ SameValue(mean, max) <=> Cardinality(ContributorScores(idx)) = 1
                  /\ mean.ulp \in UlpErrors
                  /\ (Cardinality(ContributorScores(idx)) = 1
                        /\ Cardinality(Contributors(idx)) <= 2) => mean = max

\* a group of three scores of 0.1 whose returned mean is above the returned max
C4_Witness ==
    /\ BothReturned
    /\ \E idx \in Keys(agg_out.max.items) :
          /\ Cardinality(Contributors(idx)) = 3
          /\ ContributorScores(idx) = {Frac(100, 1)}
          /\ FracLess(Lookup(agg_out.max.items, idx), Lookup(agg_out.mean.items, idx))

(***************************************************************************)
(* C5: a sub-chunk whose parent reference is a dict with neither           *)
(* original_chunk_index nor qa_index does not make the call raise and      *)
(* contributes to no group: the mapping is the one of the same call        *)
(* without that sub-chunk, and its keys are exactly the parent indices     *)
(* that have a contributing sub-chunk.                                     *)
(***************************************************************************)
RECURSIVE KeepRecognized(_, _, _)
KeepRecognized(values, parents, i) ==
    IF i > Len(values) THEN << >>
    ELSE (IF Recognized(parents[i]) THEN <<values[i]>> ELSE << >>)
         \o KeepRecognized(values, parents, i + 1)

C5_UnrecognizedParentSkipped ==
    \A m \in Methods :
        agg_out[m].done =>
            /\ agg_out[m].raised <=> Len(agg_in.parent_indices) < Len(agg_in.subchunk_sims)
            /\ ~agg_out[m].raised =>
                  /\ agg_out[m].items =
                        get_chunk_similarities(
                            KeepRecognized(agg_in.subchunk_sims, agg_in.parent_indices, 1),
                            KeepRecognized(agg_in.parent_indices, agg_in.parent_indices, 1),
                            m).items
                  /\ Keys(agg_out[m].items) = {idx \in AggParents : Contributors(idx) # {}}

\* the call returned on an input whose first sub-chunk has an unrecognized
\* reference, with parent 1 contributing and parent 0 not
C5_Witness ==
    /\ agg_out.mean.done /\ ~agg_out.mean.raised
    /\ Len(agg_in.subchunk_sims) >= 2
    /\ ~Recognized(agg_in.parent_indices[1])
    /\ Keys(agg_out.mean.items) = {1}

(***************************************************************************)
(* C6 as stated: a parent index that is no valid index of its corpus's     *)
(* chunk list is skipped, so a call on tables whose rows all have a parent *)
(* entry never ends in an error.                                           *)
(***************************************************************************)
RowsHaveParents ==
    \A c \in Corpora :
        Len(SubchunksOf(c).embeddings) <= Len(SubchunksOf(c).parent_indices)

C6_Original_InvalidIndexSkipped == RowsHaveParents => pc # "raised"

(***************************************************************************)
(* C7 as stated: when the embedding table and the parent-index table of    *)
(* some corpus differ in length the construction fails, so that no         *)
(* retriever ever serves a query on such tables.                           *)
(***************************************************************************)
RowCountMismatch ==
    \E t \in {files.dialogue_subchunks, files.essay_subchunks, files.interview_subchunks} :
        Len(t.embeddings) # Len(t.parent_indices)

C7_Original_MismatchFailsConstruction ==
    RowCountMismatch => pc \in {"start", "ensure", "failed"}

(***************************************************************************)
(* C8: a call returns the string that the first call with the same query   *)
(* returned, whatever calls came in between, and the fields of the         *)
(* retriever stay what load_data made of the files.                        *)
(***************************************************************************)
C8_SameQuerySameOutput ==
    /\ (pc = "returned" /\ answered[query].set) => result = answered[query].out
    /\ pc \notin {"start", "ensure", "failed", "aggregator"} => self = load_data(files)

\* a query returns for the second time after the two other queries were
\* answered, one of them with a different string
C8_Witness ==
    /\ pc = "returned"
    /\ \A q \in Queries : answered[q].set
    /\ \E q \in Queries : answered[q].out # answered[query].out

(***************************************************************************)
(* C9 as stated: the string retrieve_context returns is the template with  *)
(* each placeholder replaced by its rendered block, followed by the        *)
(* marker line that carries the query.                                     *)
(***************************************************************************)
\* the template with every placeholder replaced, at once, by its block
Spliced(ctx) ==
    Concat([j \in 1..Len(prompt_template) |->
               IF prompt_template[j][1] = "tag"
               THEN FormatSection(Tags[prompt_template[j][2]],
                                  ctx[Tags[prompt_template[j][2]]])
               ELSE <<prompt_template[j]>>])

HasToken(text, kind) == \E j \in 1..Len(text) : text[j][1] = kind

C9_Original_ReturnCarriesQuery ==
    pc = "returned" => result = Spliced(contexts) \o QueryMarker \o query

(***************************************************************************)
(* C9 as amended: the string retrieve_context returns carries no marker    *)
(* line; it is the template after the four replacements gpt, opus, essay,  *)
(* interview, which is the template with each placeholder replaced by its  *)
(* rendered block (nothing for an empty bucket) when no selected text      *)
(* holds a placeholder itself.  The handler of app.py appends the marker   *)
(* line and the query to it.                                               *)
(***************************************************************************)
NoPlaceholderInTexts ==
    \A k \in 1..4 : \A j \in 1..Len(contexts[Tags[k]]) :
        ~HasToken(contexts[Tags[k]][j].text, "tag")

C9_MarkerAppendedByHandler ==
    /\ pc \in {"returned", "sent"} =>
          /\ ~HasToken(result, "QUERY: ")
          /\ NoPlaceholderInTexts =>
                result = Spliced(contexts) /\ ~HasToken(result, "tag")
    /\ pc = "sent" => prompt = result \o <<NL, <<"QUERY: ", 0>>>> \o query

\* the prompt is handed on with one bucket empty and another one filled
C9_Witness ==
    /\ pc = "sent"
    /\ NoPlaceholderInTexts
    /\ contexts.opus = << >>
    /\ contexts.gpt # << >>
    /\ contexts.essay # << >>

(***************************************************************************)
(* C10 as stated: when one bucket reaches its cap first the walk is over   *)
(* for the other bucket, so that an acceptable lower-ranked entry of the   *)
(* other type is never examined: once exactly one bucket is full, the      *)
(* other one takes no further entry.                                       *)
(***************************************************************************)
GptFull == gpt_count >= CapGpt
OpusFull == Len(contexts.opus) >= CapOpus

C10_Original_WalkEndsAtFirstCap ==
    [][(pc = "walk" /\ GptFull # OpusFull) => contexts' = contexts]_vars

\* number of ranked dialogue entries the walk may accept as type t
AcceptableCount(t) == Cardinality({k \in 1..Len(ranked.dialogue) : Acceptable(k, t)})
Min(a, b) == IF a <= b THEN a ELSE b

(***************************************************************************)
(* C10 as amended: the walk cannot under-fill a bucket.  It ends before    *)
(* the end of the ranked list only when both buckets are full, and when it *)
(* has ended a bucket below its cap holds every acceptable entry of its    *)
(* type in the whole ranked list.                                          *)
(***************************************************************************)
C10_NoUnderfill ==
    WalkOver =>
        /\ pos <= Len(ranked.dialogue) =>
              Len(contexts.gpt) = CapGpt /\ Len(contexts.opus) = CapOpus
        /\ Len(contexts.gpt) = Min(CapGpt, AcceptableCount("gpt"))
        /\ Len(contexts.opus) = Min(CapOpus, AcceptableCount("opus"))

\* the walk has ended with the gpt bucket full and the opus bucket below its
\* cap, and the opus bucket holds an entry ranked below the last gpt entry
C10_Witness ==
    /\ pc = "essay"
    /\ Len(contexts.gpt) = CapGpt
    /\ Len(contexts.opus) < CapOpus
    /\ contexts.opus # << >>
    /\ FracLess(contexts.opus[Len(contexts.opus)].sim, contexts.gpt[CapGpt].sim)

(***************************************************************************)
(* C11: the single walk with two accumulators and an early exit returns    *)
(* the buckets of two independent passes over the ranked list.  When the   *)
(* walk has ended, the gpt bucket is the first min(K_gpt, n) entries, in   *)
(* rank order, of the n in-range chunks of type gpt that pass the          *)
(* repeated-phrase filter, and the opus bucket is the first min(K_opus, m) *)
(* of the m in-range chunks of type opus; gpt_count is the length of the   *)
(* gpt bucket, so a chunk the filter rejects has used no slot.  In range   *)
(* means 0 <= index < len(dialogue_metadata): the statement is for any     *)
(* ranked list, one with a negative chunk index included.                  *)
(***************************************************************************)
\* the chunk index is one of the metadata list
InRange(idx) == 0 <= idx /\ idx < Len(self.dialogue_metadata)

\* the ranked entry at position k would be taken by a pass for type t alone
Qualifies(k, t) ==
    LET idx == ranked.dialogue[k].idx
    IN  /\ InRange(idx)
        /\ self.dialogue_metadata[idx + 1].type = t
        /\ t = "gpt" => CountPhrase(self.dialogue_chunks[idx + 1]) <= 1

\* positions of the ranked list that qualify for type t, in rank order
RECURSIVE QualifyingFrom(_, _)
QualifyingFrom(k, t) ==
    IF k > Len(ranked.dialogue) THEN << >>
    ELSE (IF Qualifies(k, t) THEN <<k>> ELSE << >>) \o QualifyingFrom(k + 1, t)

\* the bucket of an independent pass for type t with cap K
OnePass(t, K) ==
    LET all == QualifyingFrom(1, t)
        m == Min(K, Len(all))
    IN  [j \in 1..m |->
            Pair(self.dialogue_chunks[ranked.dialogue[all[j]].idx + 1],
                 ranked.dialogue[all[j]].sim)]

C11_Original_WalkEqualsTwoPasses ==
    pc = "essay" =>
        /\ contexts.gpt = OnePass("gpt", results_per_category.gpt)
        /\ contexts.opus = OnePass("opus", results_per_category.opus)
        /\ gpt_count = Len(contexts.gpt)

\* no ranked entry carries a negative chunk index
NoNegativeIndex == \A k \in 1..Len(ranked.dialogue) : ranked.dialogue[k].idx >= 0

\* the walk and the two passes differ on no other ranked list: line 198
\* lets a negative index through and lines 201-202 wrap it to the end of the
\* lists
WalkEqualsTwoPassesWithoutNegativeIndex ==
    (pc = "essay" /\ NoNegativeIndex) => C11_Original_WalkEqualsTwoPasses

(***************************************************************************)
(* C12: retrieve_context aggregates with the max policy whatever the       *)
(* module-level setting `method` holds.  In every call, for the dialogue,  *)
(* the essay and the interview corpus, the ranked list holds one entry for *)
(* each parent that a sub-chunk names, and the score of the entry is the   *)
(* greatest score of the sub-chunks of that parent.                        *)
(***************************************************************************)
\* the ranked lists at hand belong to the call in progress
Ranking == pc \in {"walk", "essay", "interview", "format", "returned", "sent"}

\* score of every sub-chunk row of corpus c against the query of the call
RowScores(c) == calculate_similarities(get_embedding(query), SubchunksOf(c).embeddings)

\* the rows of corpus c that have a parent reference naming a chunk: the
\* aggregator visits one row per score
NamingRows(c) ==
    {i \in 1..Len(SubchunksOf(c).embeddings) :
        /\ i <= Len(SubchunksOf(c).parent_indices)
        /\ Recognized(SubchunksOf(c).parent_indices[i])}

\* the rows of corpus c whose parent reference names chunk idx
RowsOf(c, idx) ==
    {i \in NamingRows(c) : ParentOf(SubchunksOf(c).parent_indices[i]) = idx}

ScoresOf(c, idx) == {RowScores(c)[i] : i \in RowsOf(c, idx)}
Greatest(S) == CHOOSE x \in S : \A y \in S : FracLeq(y, x)

\* the parents named by the rows of corpus c
ParentsOf(c) == {ParentOf(SubchunksOf(c).parent_indices[i]) : i \in NamingRows(c)}

\* corpus c has been ranked in the call in progress
Ranked(c) ==
    \/ c = "dialogue"
    \/ c = "essay" /\ pc \in {"interview", "format", "returned", "sent"}
    \/ c = "interview" /\ pc \in {"format", "returned", "sent"}

C12_AlwaysMaxPolicy ==
    Ranking =>
        \A c \in Corpora :
            Ranked(c) =>
                /\ {ranked[c][k].idx : k \in 1..Len(ranked[c])} = ParentsOf(c)
                /\ \A k \in 1..Len(ranked[c]) :
                      ranked[c][k].sim = Greatest(ScoresOf(c, ranked[c][k].idx))

\* a call has returned while the setting holds "mean", and in each of the
\* three corpora some ranked chunk has sub-chunks of different scores
C12_Witness ==
    /\ pc = "returned"
    /\ module_method = "mean"
    /\ \A c \in Corpora :
          \E k \in 1..Len(ranked[c]) : Cardinality(ScoresOf(c, ranked[c][k].idx)) >= 2

====
